---- MODULE Spec2Model ----
(***************************************************************************)
(* Moderation state of Aurora Compass: the moderation-options Provider     *)
(* (the value it computes for its consumers) and the label-authority       *)
(* configuration of a session (configureModerationForGuest,                *)
(* configureModerationForAccount).                                         *)
(*                                                                         *)
(* JavaScript values are modelled as follows.  `undefined` is the record   *)
(* Undefined.  A value that may be undefined is wrapped so that it can be  *)
(* compared with Undefined: Str(s) is a string, Arr(q) an array.  A value  *)
(* that is never undefined is a plain string, sequence or record.          *)
(***************************************************************************)
EXTENDS Integers, Sequences, FiniteSets, TLC

\* ------------------------------------------------------------------ bounds
\* The largest attempt budget of a call of executeWithRetry.
MaxAttempts == 3
\* The largest reading of the microsecond clock.
MaxClock == 2
\* The number of RecordKeys that a generator issues.
MaxKeys == 3
\* Longest labeler list of the preferences that the model enumerates.
MaxLabelers == 2
\* Number of configureModerationForAccount calls that can be in progress.
MaxCalls == 2
\* Longest persisted labeler list (per account) that the model enumerates.
MaxStored == 1

\* ------------------------------------------------------------- JS values
Undefined == [tag |-> "undefined"]
Str(s) == [tag |-> "string", value |-> s]
Arr(q) == [tag |-> "array", items |-> q]

\* JavaScript truthiness of a value that is an object, an array, a non-empty
\* string or undefined: only undefined is falsy (an empty array is truthy).
Truthy(v) == v # Undefined

\* All sequences over S of length at most n.
Lists(S, n) == UNION {[1..k -> S] : k \in 0..n}

\* q without its later occurrences of an element (Array.from(new Set(q))).
RECURSIVE Dedup(_)
Dedup(q) ==
  IF q = <<>> THEN <<>>
  ELSE LET init == Dedup(SubSeq(q, 1, Len(q) - 1))
           last == q[Len(q)]
       IN IF \E i \in 1..Len(init) : init[i] = last THEN init
          ELSE Append(init, last)

NoDuplicates(q) == \A i, j \in 1..Len(q) : q[i] = q[j] => i = j
Elems(q) == {q[i] : i \in 1..Len(q)}

\* ------------------------------------------------------------ identifiers
A == "did:plc:mod1"
B == "did:plc:mod2"
C == "did:plc:mod3"
LabelerDids == {A, B, C}
BSKY_LABELER_DID == "did:plc:ar7c4by46qjdydhdevvrndac"
TestLabelerDid == "did:plc:modauthority"

AlicePost == "at://did:plc:alice/app.feed.post/3k2x"
OtherPost == "at://did:plc:bob/app.feed.post/3k9q"
HiddenUris == {AlicePost, OtherPost}

\* A session account: its DID and its handle (the labels of the DNS name).
Alice == [did |-> "did:plc:alice", handle |-> <<"alice", "bsky", "social">>]
Tester == [did |-> "did:plc:tester", handle |-> <<"tester", "test">>]
Accounts == {Alice, Tester}
AccountDids == {a.did : a \in Accounts}

\* -------------------------------------------------------- Provider inputs
LabelDefsInputs == {{}, {"custom-label"}}
HiddenPostsInputs == {Undefined, Arr(<<>>), Arr(<<AlicePost>>), Arr(<<AlicePost, OtherPost>>)}

\* prefs.data.moderationPrefs: the fields of the preferences the Provider
\* spreads (adultContentEnabled), replaces (hiddenPosts) and reads (labelers).
ModerationPrefsInputs ==
  [adultContentEnabled : BOOLEAN,
   labelers : Lists(LabelerDids, MaxLabelers),
   hiddenPosts : {<<OtherPost>>}]

\* The result of usePreferencesQuery(): data is undefined until loaded.
PrefsInputs ==
  {[data |-> Undefined]} \cup {[data |-> [moderationPrefs |-> m]] : m \in ModerationPrefsInputs}

\* A ModerationOpts value.
ModerationOpts(userDid, prefs, labelDefs) ==
  [tag |-> "ModerationOpts", userDid |-> userDid, prefs |-> prefs, labelDefs |-> labelDefs]

\* The contexts the moderation devtool substitutes.
OverrideInputs ==
  {Undefined,
   ModerationOpts(Str("did:plc:dev"),
                  [adultContentEnabled |-> TRUE, labelers |-> <<C, C>>, hiddenPosts |-> <<>>],
                  {"devtool-label"}),
   ModerationOpts(Undefined,
                  [adultContentEnabled |-> FALSE, labelers |-> <<>>, hiddenPosts |-> <<AlicePost>>],
                  {})}

CurrentAccountInputs == {Undefined} \cup Accounts

\* The locally configured additional moderation authorities.
AdditionalDids == {B, C, BSKY_LABELER_DID}
AdditionalInputs == Lists(AdditionalDids, MaxLabelers)
AdditionalSamples == {<<>>, <<B, C>>}

VARIABLES
  override,          \* moderationOptsOverrideContext
  currentAccount,    \* useSession().currentAccount
  prefs,             \* usePreferencesQuery()
  labelDefs,         \* useLabelDefinitions().labelDefs
  hiddenPosts,       \* useHiddenPosts()
  memoDeps,          \* the dependencies of the last computation of useMemo
  value,             \* moderationOptsContext: what useModerationOpts() returns
  additional,        \* the configured additional moderation authorities
  noAppLabelers,     \* getNoAppLabelers(): the default authority is suppressed
  appLabelers,       \* BskyAgent.appLabelers (global to the app)
  labelerStore,      \* the persisted labeler list of each account (readLabelers)
  labelersHeader,    \* the labelers header configured on each account's agent
  calls,             \* the configureModerationForAccount calls in progress
  lastStep,          \* the configuration step that ran last, and its result
  latest,            \* the configuration call that started last, and its test DID
  propsIsReady,      \* Splash: props.isReady
  isAnimationComplete, \* Splash: useState(false)
  isImageLoaded,     \* Splash: useState(false)
  isLayoutReady,     \* Splash: useState(false)
  reduceMotion,      \* Splash: useState<boolean | undefined>(false)
  reduceMotionQuery, \* Splash: AccessibilityInfo.isReduceMotionEnabled() is pending
  colorScheme,       \* Splash: useColorScheme()
  effectDeps,        \* Splash: isReady at the last run of the effect of lines 136-173
  hideAsync,         \* Splash: the promise of SplashScreen.hideAsync()
  intro,             \* Splash: the animation of the shared value intro
  outroLogo,         \* Splash: the animation of the shared value outroLogo
  outroApp,          \* Splash: the animation of the shared value outroApp
  outroAppOpacity,   \* Splash: the animation of the shared value outroAppOpacity
  jsQueue,           \* Splash: the calls that runOnJS has queued on the JS thread
  rendered,          \* Splash: what the last render returned
  request,           \* Retry Engine: the XrpcRequest of the call
  maxAttempts,       \* Retry Engine: the attempt budget of the call
  attempts,          \* Retry Engine: the attempts started so far
  retryPc,           \* Retry Engine: "attempt" in flight, "backoff" pending, or "done"
  response,          \* Transport Client: what the last attempt received
  history,           \* Retry Engine: the outcome of each attempt, in order
  result,            \* Retry Engine: the XrpcOutcome returned to the caller
  cancelSignal,      \* Retry Engine: the caller's cancellation signal has fired
  clockId,           \* RecordKey generator: the per-process clock identifier
  lastTimestamp,     \* RecordKey generator: the last-issued timestamp
  mutex,             \* RecordKey generator: the task that has exclusive access
  tasks,             \* RecordKey generator: where each task is in its request
  issued             \* RecordKey generator: the keys emitted, in the order of issue

providerVars == <<override, currentAccount, prefs, labelDefs, hiddenPosts, memoDeps, value>>
configVars == <<additional, noAppLabelers, appLabelers, labelerStore, labelersHeader, calls, lastStep, latest>>
splashVars == <<propsIsReady, isAnimationComplete, isImageLoaded, isLayoutReady, reduceMotion,
                reduceMotionQuery, colorScheme, effectDeps, hideAsync, intro, outroLogo,
                outroApp, outroAppOpacity, jsQueue, rendered>>
xrpcVars == <<request, maxAttempts, attempts, retryPc, response, history, result, cancelSignal>>
tidVars == <<clockId, lastTimestamp, mutex, tasks, issued>>
vars == <<providerVars, configVars, splashVars, xrpcVars, tidVars>>
\* What the moderation code, Splash, the Retry Engine and the RecordKey
\* generator each leave alone.
notModerationVars == <<splashVars, xrpcVars, tidVars>>
notSplashVars == <<providerVars, configVars, xrpcVars, tidVars>>
notXrpcVars == <<providerVars, configVars, splashVars, tidVars>>
notTidVars == <<providerVars, configVars, splashVars, xrpcVars>>

\* ---------------------------------------------------------------- Provider
\* currentAccount?.did
UserDidOf(account) == IF account = Undefined THEN Undefined ELSE Str(account.did)

\* prefs.data?.moderationPrefs
ModerationPrefsOf(p) == IF p.data = Undefined THEN Undefined ELSE p.data.moderationPrefs

\* hiddenPosts || []
HiddenOrEmpty(hp) == IF Truthy(hp) THEN hp.items ELSE <<>>

\* Mutants of MergedPrefs: the additional authorities are appended to the
\* labelers (deduplicated or not), the default authority stands in for an empty
\* list, the hidden posts of the preferences are kept.
MergedPrefs_AppendsAdditional(moderationPrefs, hp) ==
  [moderationPrefs EXCEPT !.labelers = Dedup(moderationPrefs.labelers \o additional),
                          !.hiddenPosts = HiddenOrEmpty(hp)]
MergedPrefs_ConcatsAdditional(moderationPrefs, hp) ==
  [moderationPrefs EXCEPT !.labelers = moderationPrefs.labelers \o additional,
                          !.hiddenPosts = HiddenOrEmpty(hp)]
MergedPrefs_DefaultLabelers(moderationPrefs, hp) ==
  [moderationPrefs EXCEPT !.labelers = IF Len(moderationPrefs.labelers) > 0
                                       THEN moderationPrefs.labelers
                                       ELSE <<BSKY_LABELER_DID>>,
                          !.hiddenPosts = HiddenOrEmpty(hp)]
MergedPrefs_KeepsHiddenPosts(moderationPrefs, hp) ==
  [moderationPrefs EXCEPT !.labelers = moderationPrefs.labelers]

\* {...moderationPrefs, labelers: moderationPrefs.labelers, hiddenPosts: hiddenPosts || []}
MergedPrefs(moderationPrefs, hp) ==
  [moderationPrefs EXCEPT !.labelers = moderationPrefs.labelers,
                          !.hiddenPosts = HiddenOrEmpty(hp)]

\* Mutants of Resolve: the override is merged with the current label
\* definitions; preferences without labelers count as not loaded.
Resolve_MergesOverride(ov, userDid, moderationPrefs, hp, ld) ==
  IF Truthy(ov) THEN [ov EXCEPT !.labelDefs = ld]
  ELSE IF ~Truthy(moderationPrefs) THEN Undefined
  ELSE ModerationOpts(userDid, MergedPrefs(moderationPrefs, hp), ld)
Resolve_EmptyIsUnresolved(ov, userDid, moderationPrefs, hp, ld) ==
  IF Truthy(ov) THEN ov
  ELSE IF ~Truthy(moderationPrefs) \/ moderationPrefs.labelers = <<>> THEN Undefined
  ELSE ModerationOpts(userDid, MergedPrefs(moderationPrefs, hp), ld)

\* The function given to useMemo.
Resolve(ov, userDid, moderationPrefs, hp, ld) ==
  IF Truthy(ov) THEN ov
  ELSE IF ~Truthy(moderationPrefs) THEN Undefined
  ELSE ModerationOpts(userDid, MergedPrefs(moderationPrefs, hp), ld)

\* Mutant of Deps: the hidden posts are missing from the dependency list.
Deps_OmitsHiddenPosts(ov, userDid, moderationPrefs, hp, ld) ==
  <<ov, userDid, ld, moderationPrefs>>

\* The dependency list of useMemo.
Deps(ov, userDid, moderationPrefs, hp, ld) == <<ov, userDid, ld, moderationPrefs, hp>>

\* One render of the Provider with the given hook results: useMemo keeps the
\* previous value unless a dependency changed.
Render(ov, account, p, ld, hp) ==
  LET userDid == UserDidOf(account)
      moderationPrefs == ModerationPrefsOf(p)
      deps == Deps(ov, userDid, moderationPrefs, hp, ld)
  IN /\ memoDeps' = deps
     /\ value' = IF deps = memoDeps THEN value
                 ELSE Resolve(ov, userDid, moderationPrefs, hp, ld)

\* The first render: nothing is memoized yet.
FirstRender(ov, account, p, ld, hp) ==
  LET userDid == UserDidOf(account)
      moderationPrefs == ModerationPrefsOf(p)
  IN /\ memoDeps = Deps(ov, userDid, moderationPrefs, hp, ld)
     /\ value = Resolve(ov, userDid, moderationPrefs, hp, ld)

\* The devtool sets or clears the override context.
OverrideChanges(ov) ==
  /\ ov # override
  /\ override' = ov
  /\ Render(ov, currentAccount, prefs, labelDefs, hiddenPosts)
  /\ UNCHANGED <<currentAccount, prefs, labelDefs, hiddenPosts, configVars, notModerationVars>>

\* The session switches account (or logs out).
SessionChanges(account) ==
  /\ account # currentAccount
  /\ currentAccount' = account
  /\ Render(override, account, prefs, labelDefs, hiddenPosts)
  /\ UNCHANGED <<override, prefs, labelDefs, hiddenPosts, configVars, notModerationVars>>

\* The preferences query loads, reloads or is reset.
PreferencesChange(p) ==
  /\ p # prefs
  /\ prefs' = p
  /\ Render(override, currentAccount, p, labelDefs, hiddenPosts)
  /\ UNCHANGED <<override, currentAccount, labelDefs, hiddenPosts, configVars, notModerationVars>>

\* The label-definition catalog changes.
LabelDefsChange(ld) ==
  /\ ld # labelDefs
  /\ labelDefs' = ld
  /\ Render(override, currentAccount, prefs, ld, hiddenPosts)
  /\ UNCHANGED <<override, currentAccount, prefs, hiddenPosts, configVars, notModerationVars>>

\* The locally hidden posts change.
HiddenPostsChange(hp) ==
  /\ hp # hiddenPosts
  /\ hiddenPosts' = hp
  /\ Render(override, currentAccount, prefs, labelDefs, hp)
  /\ UNCHANGED <<override, currentAccount, prefs, labelDefs, configVars, notModerationVars>>

\* The Provider is mounted with no override, no account, preferences not
\* loaded, the empty catalog and no hidden posts.
ProviderInit ==
  /\ override = Undefined
  /\ currentAccount = Undefined
  /\ prefs = [data |-> Undefined]
  /\ labelDefs = {}
  /\ hiddenPosts = Undefined
  /\ FirstRender(override, currentAccount, prefs, labelDefs, hiddenPosts)


\* ------------------------------------------------- label-authority config
Calls == 1..MaxCalls

\* IS_TEST_USER(handle): the handle ends with ".test".
IS_TEST_USER(handle) == Len(handle) > 0 /\ handle[Len(handle)] = "test"

StoredDids == {A, B}
StoredInputs == {Undefined} \cup {Arr(q) : q \in Lists(StoredDids, MaxStored)}
StoredSamples == {Undefined, Arr(<<A>>)}

\* How a promise settles.
Fulfilled(v) == [status |-> "fulfilled", value |-> v]
Rejected == [status |-> "rejected"]

\* What agent.resolveHandle({handle: 'mod-authority.test'}) can settle to.
ResolveHandleOutcomes ==
  {Rejected,
   Fulfilled([data |-> [did |-> Undefined]]),
   Fulfilled([data |-> [did |-> Str(TestLabelerDid)]])}

\* The result of an awaited expression: a value, or an exception that ends
\* the async function.
Value(v) == [threw |-> FALSE, value |-> v]
Threw == [threw |-> TRUE]

\* await promise.catch(_ => fallback)
AwaitCatch(settled, fallback) ==
  IF settled.status = "rejected" THEN Value(fallback) ELSE Value(settled.value)

\* Mutant of SwitchToBskyAppLabeler: the suppression of the default authority
\* is ignored.
SwitchToBskyAppLabeler_IgnoresSuppression == <<BSKY_LABELER_DID>>

\* switchToBskyAppLabeler(): the appLabelers it configures.
SwitchToBskyAppLabeler == IF noAppLabelers THEN <<>> ELSE <<BSKY_LABELER_DID>>

\* configureAdditionalModerationAuthorities(): the appLabelers it configures,
\* given the current ones.
ConfigureAdditionalModerationAuthorities(labelers) == Dedup(labelers \o additional)

\* Mutant of AwaitTestDid: the rejection is not caught.
AwaitTestDid_NoCatch(settled) ==
  IF settled.status = "rejected" THEN Threw ELSE Value(settled.value.data.did)

\* Mutant of AwaitLabelerDids: the rejection is not caught.
AwaitLabelerDids_NoCatch(settled) ==
  IF settled.status = "rejected" THEN Threw ELSE Value(settled.value)

\* (await agent.resolveHandle(..).catch(_ => undefined))?.data.did
AwaitTestDid(settled) ==
  LET res == AwaitCatch(settled, Undefined)
  IN IF res.threw THEN Threw
     ELSE IF res.value = Undefined THEN Value(Undefined)
     ELSE Value(res.value.data.did)

\* Mutant of TrySwitchToTestAppLabeler: the test authority is added to the
\* app labelers instead of replacing them.
TrySwitchToTestAppLabeler_Appends(labelers, did) ==
  IF Truthy(did) THEN Append(labelers, did.value) ELSE labelers

\* The rest of trySwitchToTestAppLabeler, given did: the appLabelers after it.
TrySwitchToTestAppLabeler(labelers, did) ==
  IF Truthy(did) THEN <<did.value>> ELSE labelers

\* await readLabelers(account.did).catch(_ => {})
AwaitLabelerDids(settled) == AwaitCatch(settled, Undefined)

\* if (labelerDids) agent.configureLabelersHeader(labelerDids): the header after it.
ConfigureLabelersHeader(header, labelerDids) ==
  IF Truthy(labelerDids) THEN labelerDids ELSE header

IdleCall == [pc |-> "idle", account |-> Undefined, did |-> Undefined]
NoCallInProgress == \A c \in Calls : calls[c].pc = "idle"

\* configureModerationForGuest(): synchronous.
ConfigureModerationForGuest ==
  /\ appLabelers' = ConfigureAdditionalModerationAuthorities(SwitchToBskyAppLabeler)
  /\ lastStep' = [op |-> "configureModerationForGuest"]
  /\ latest' = [op |-> "guest", call |-> 0, did |-> Undefined]
  /\ UNCHANGED <<additional, noAppLabelers, labelerStore, labelersHeader, calls, providerVars, notModerationVars>>

\* configureModerationForAccount(agent, account), up to its first await:
\* lines 76-78 for a test user, lines 76-82 otherwise.
ConfigureModerationForAccount(c, account) ==
  /\ calls[c].pc = "idle"
  /\ appLabelers' = SwitchToBskyAppLabeler
  /\ calls' = [calls EXCEPT ![c] =
                 [pc |-> IF IS_TEST_USER(account.handle) THEN "resolveHandle" ELSE "readLabelers",
                  account |-> account,
                  did |-> Undefined]]
  /\ lastStep' = [op |-> "start", account |-> account]
  /\ latest' = [op |-> "account", call |-> c, did |-> Undefined]
  /\ UNCHANGED <<additional, noAppLabelers, labelerStore, labelersHeader, providerVars, notModerationVars>>

\* The handle resolution of call c settles: the rest of
\* trySwitchToTestAppLabeler, then readLabelers is called (line 82).
ResolveHandleSettles(c, settled) ==
  /\ calls[c].pc = "resolveHandle"
  /\ LET res == AwaitTestDid(settled)
     IN IF res.threw
        THEN /\ calls' = [calls EXCEPT ![c] = IdleCall]
             /\ lastStep' = [op |-> "configureModerationForAccount", threw |-> TRUE,
                             account |-> calls[c].account, testUser |-> TRUE,
                             did |-> Undefined, labelerDids |-> Undefined]
             /\ UNCHANGED <<appLabelers, latest>>
        ELSE /\ appLabelers' = TrySwitchToTestAppLabeler(appLabelers, res.value)
             /\ calls' = [calls EXCEPT ![c].pc = "readLabelers", ![c].did = res.value]
             /\ lastStep' = [op |-> "resolved", account |-> calls[c].account]
             /\ latest' = IF latest.call = c THEN [latest EXCEPT !.did = res.value] ELSE latest
  /\ UNCHANGED <<additional, noAppLabelers, labelerStore, labelersHeader, providerVars, notModerationVars>>

\* What readLabelers(did) can settle to: the persisted list, or a failure.
ReadLabelersOutcomes(did) == {Rejected, Fulfilled(labelerStore[did])}
AnyReadLabelersOutcome == {Rejected} \cup {Fulfilled(v) : v \in StoredInputs}

\* Lines 82-90 of call c, given what the read of the persisted labelers
\* settled to: everything but the persisted labelers themselves.
ReadLabelersSettlesBody(c, settled) ==
  /\ calls[c].pc = "readLabelers"
  /\ settled \in ReadLabelersOutcomes(calls[c].account.did)
  /\ LET account == calls[c].account
         res == AwaitLabelerDids(settled)
     IN IF res.threw
        THEN /\ lastStep' = [op |-> "configureModerationForAccount", threw |-> TRUE,
                             account |-> account, testUser |-> IS_TEST_USER(account.handle),
                             did |-> calls[c].did, labelerDids |-> Undefined]
             /\ UNCHANGED <<appLabelers, labelersHeader>>
        ELSE /\ labelersHeader' =
                  [labelersHeader EXCEPT ![account.did] = ConfigureLabelersHeader(@, res.value)]
             /\ appLabelers' = ConfigureAdditionalModerationAuthorities(appLabelers)
             /\ lastStep' = [op |-> "configureModerationForAccount", threw |-> FALSE,
                             account |-> account, testUser |-> IS_TEST_USER(account.handle),
                             did |-> calls[c].did, labelerDids |-> res.value]
  /\ calls' = [calls EXCEPT ![c] = IdleCall]
  /\ latest' = IF latest.call = c THEN [latest EXCEPT !.call = 0] ELSE latest
  /\ UNCHANGED <<additional, noAppLabelers, providerVars, notModerationVars>>

\* Mutant of ReadLabelersSettles: when nothing is persisted for the account,
\* the call persists an empty list.
ReadLabelersSettles_PersistsEmptyList(c, settled) ==
  /\ ReadLabelersSettlesBody(c, settled)
  /\ labelerStore' = [labelerStore EXCEPT ![calls[c].account.did] =
                        IF @ = Undefined THEN Arr(<<>>) ELSE @]

\* The read of the persisted labelers of call c settles: lines 82-90.
ReadLabelersSettles(c, settled) ==
  /\ ReadLabelersSettlesBody(c, settled)
  /\ UNCHANGED labelerStore

\* The app has started: BskyAgent.appLabelers has the library's default, no
\* agent has a labelers header, no call is in progress.
ConfigInit(additionalSet, suppressSet, storedSet) ==
  /\ additional \in additionalSet
  /\ noAppLabelers \in suppressSet
  /\ appLabelers = <<BSKY_LABELER_DID>>
  /\ labelerStore \in [AccountDids -> storedSet]
  /\ labelersHeader = [d \in AccountDids |-> Undefined]
  /\ calls = [c \in Calls |-> IdleCall]
  /\ lastStep = [op |-> "init"]
  /\ latest = [op |-> "none", call |-> 0, did |-> Undefined]

\* ------------------------------------------------------------------ Splash
\* A boolean of JS, as a value that may also be undefined.
Bool(b) == [tag |-> "boolean", value |-> b]

\* useColorScheme(): 'light' | 'dark' | null.
ColorSchemes == {"light", "dark", "null"}

\* Mutant of IsReady: the layout is not waited for.
IsReady_IgnoresLayout(ready, imageLoaded, layoutReady, motion) ==
  ready /\ imageLoaded /\ motion # Undefined

\* const isReady = props.isReady && isImageLoaded && isLayoutReady &&
\*                 reduceMotion !== undefined
IsReady(ready, imageLoaded, layoutReady, motion) ==
  ready /\ imageLoaded /\ layoutReady /\ motion # Undefined

\* What the component returns (lines 179-240): the overlay with the splash
\* image while the animation is not complete, the children once ready, and
\* over them the logo while the animation is not complete.
Rendered(ready, animationComplete, motion, scheme) ==
  [overlay        |-> ~animationComplete,
   source         |-> IF scheme = "dark" THEN "splash-dark.png" ELSE "splash.png",
   children       |-> ready,
   logo           |-> ready /\ ~animationComplete,
   logoAnimations |-> IF motion = Bool(TRUE) THEN "reducedLogoAnimation" ELSE "logoAnimation"]

\* A state or a prop has changed: the component renders again, and the effect
\* of lines 136-173 runs if isReady has changed; if isReady is now true it
\* calls SplashScreen.hideAsync().
Commit ==
  LET ready == IsReady(propsIsReady', isImageLoaded', isLayoutReady', reduceMotion')
  IN /\ rendered' = Rendered(ready, isAnimationComplete', reduceMotion', colorScheme')
     /\ effectDeps' = ready
     /\ hideAsync' = IF ready # effectDeps /\ ready THEN "pending" ELSE hideAsync

\* The caller passes isReady = true.
IsReadyProp ==
  /\ ~propsIsReady
  /\ propsIsReady' = TRUE
  /\ UNCHANGED <<isAnimationComplete, isImageLoaded, isLayoutReady, reduceMotion, colorScheme>>
  /\ Commit
  /\ UNCHANGED <<reduceMotionQuery, intro, outroLogo, outroApp, outroAppOpacity, jsQueue,
                 notSplashVars>>

\* onLoadEnd of the splash image, which is mounted with the overlay.
OnLoadEnd ==
  /\ rendered.overlay /\ ~isImageLoaded
  /\ isImageLoaded' = TRUE
  /\ UNCHANGED <<propsIsReady, isAnimationComplete, isLayoutReady, reduceMotion, colorScheme>>
  /\ Commit
  /\ UNCHANGED <<reduceMotionQuery, intro, outroLogo, outroApp, outroAppOpacity, jsQueue,
                 notSplashVars>>

\* onLayout of the root view.
OnLayout ==
  /\ ~isLayoutReady
  /\ isLayoutReady' = TRUE
  /\ UNCHANGED <<propsIsReady, isAnimationComplete, isImageLoaded, reduceMotion, colorScheme>>
  /\ Commit
  /\ UNCHANGED <<reduceMotionQuery, intro, outroLogo, outroApp, outroAppOpacity, jsQueue,
                 notSplashVars>>

\* AccessibilityInfo.isReduceMotionEnabled().then(setReduceMotion)
SetReduceMotion(enabled) ==
  /\ reduceMotionQuery
  /\ reduceMotionQuery' = FALSE
  /\ reduceMotion' = Bool(enabled)
  /\ UNCHANGED <<propsIsReady, isAnimationComplete, isImageLoaded, isLayoutReady, colorScheme>>
  /\ Commit
  /\ UNCHANGED <<intro, outroLogo, outroApp, outroAppOpacity, jsQueue, notSplashVars>>

\* The system's colour scheme changes.
ColorSchemeChanges(scheme) ==
  /\ scheme # colorScheme
  /\ colorScheme' = scheme
  /\ UNCHANGED <<propsIsReady, isAnimationComplete, isImageLoaded, isLayoutReady, reduceMotion>>
  /\ Commit
  /\ UNCHANGED <<reduceMotionQuery, intro, outroLogo, outroApp, outroAppOpacity, jsQueue,
                 notSplashVars>>

\* Mutant of HideAsyncSettles: the intro animation starts however the promise
\* settles.
HideAsyncSettles_StartsIntroAlways(settled) ==
  /\ hideAsync = "pending"
  /\ hideAsync' = settled.status
  /\ intro' = "running"
  /\ UNCHANGED <<propsIsReady, isAnimationComplete, isImageLoaded, isLayoutReady, reduceMotion,
                 reduceMotionQuery, colorScheme, effectDeps, outroLogo, outroApp,
                 outroAppOpacity, jsQueue, rendered, notSplashVars>>

\* The promise of hideAsync() settles: .then starts the intro animation,
\* .catch(() => {}) does nothing.
HideAsyncSettles(settled) ==
  /\ hideAsync = "pending"
  /\ hideAsync' = settled.status
  /\ intro' = IF settled.status = "fulfilled" THEN "running" ELSE intro
  /\ UNCHANGED <<propsIsReady, isAnimationComplete, isImageLoaded, isLayoutReady, reduceMotion,
                 reduceMotionQuery, colorScheme, effectDeps, outroLogo, outroApp,
                 outroAppOpacity, jsQueue, rendered, notSplashVars>>

\* The intro animation ends: its callback starts the three outro animations.
IntroFinishes ==
  /\ intro = "running"
  /\ intro' = "finished"
  /\ outroLogo' = "running"
  /\ outroApp' = "running"
  /\ outroAppOpacity' = "running"
  /\ UNCHANGED <<propsIsReady, isAnimationComplete, isImageLoaded, isLayoutReady, reduceMotion,
                 reduceMotionQuery, colorScheme, effectDeps, hideAsync, jsQueue, rendered,
                 notSplashVars>>

\* The outroLogo animation ends: its callback is runOnJS(onFinish)().
OutroLogoFinishes ==
  /\ outroLogo = "running"
  /\ outroLogo' = "finished"
  /\ jsQueue' = Append(jsQueue, "onFinish")
  /\ UNCHANGED <<propsIsReady, isAnimationComplete, isImageLoaded, isLayoutReady, reduceMotion,
                 reduceMotionQuery, colorScheme, effectDeps, hideAsync, intro, outroApp,
                 outroAppOpacity, rendered, notSplashVars>>

\* The outroApp animation ends; it has no callback.
OutroAppFinishes ==
  /\ outroApp = "running"
  /\ outroApp' = "finished"
  /\ UNCHANGED <<propsIsReady, isAnimationComplete, isImageLoaded, isLayoutReady, reduceMotion,
                 reduceMotionQuery, colorScheme, effectDeps, hideAsync, intro, outroLogo,
                 outroAppOpacity, jsQueue, rendered, notSplashVars>>

\* The outroAppOpacity animation ends; it has no callback.
OutroAppOpacityFinishes ==
  /\ outroAppOpacity = "running"
  /\ outroAppOpacity' = "finished"
  /\ UNCHANGED <<propsIsReady, isAnimationComplete, isImageLoaded, isLayoutReady, reduceMotion,
                 reduceMotionQuery, colorScheme, effectDeps, hideAsync, intro, outroLogo,
                 outroApp, jsQueue, rendered, notSplashVars>>

\* onFinish runs on the JS thread: setIsAnimationComplete(true).
OnFinish ==
  /\ jsQueue # <<>>
  /\ jsQueue' = Tail(jsQueue)
  /\ isAnimationComplete' = TRUE
  /\ UNCHANGED <<propsIsReady, isImageLoaded, isLayoutReady, reduceMotion, colorScheme>>
  /\ Commit
  /\ UNCHANGED <<reduceMotionQuery, intro, outroLogo, outroApp, outroAppOpacity, notSplashVars>>

\* Splash has mounted with isReady = false: the first render shows the
\* overlay only, the effect of lines 136-173 has run without calling
\* hideAsync, the effect of lines 175-177 has asked for the reduce-motion
\* setting.
SplashInit(schemes) ==
  /\ propsIsReady = FALSE
  /\ isAnimationComplete = FALSE
  /\ isImageLoaded = FALSE
  /\ isLayoutReady = FALSE
  /\ reduceMotion = Bool(FALSE)
  /\ reduceMotionQuery = TRUE
  /\ colorScheme \in schemes
  /\ effectDeps = FALSE
  /\ hideAsync = "notCalled"
  /\ intro = "idle"
  /\ outroLogo = "idle"
  /\ outroApp = "idle"
  /\ outroAppOpacity = "idle"
  /\ jsQueue = <<>>
  /\ rendered = Rendered(FALSE, FALSE, Bool(FALSE), colorScheme)

\* ------------------------------------------ Transport Client, Retry Engine
\* What an attempt can receive: no response at all (connection failure or
\* timeout), or a status with a body. A body is the declared payload, an error
\* envelope, something that does not decode, or nothing.
NoResponse == [tag |-> "noResponse"]
Payload(data) == [tag |-> "payload", data |-> data]
Envelope(error, message) == [tag |-> "envelope", error |-> error, message |-> message]
Malformed == [tag |-> "malformed"]
NoBody == [tag |-> "noBody"]
Statuses == {200, 400, 401, 404, 500, 503}
Bodies == {Payload("record"), Envelope("NotFound", "Record not found"), Malformed, NoBody}
Responses == {NoResponse} \cup {[tag |-> "http", status |-> st, body |-> b] : st \in Statuses, b \in Bodies}

IsSuccessStatus(status) == status \in 200..299

\* The class of an error status in the taxonomy.
StatusCategory(status) ==
  IF status = 401 THEN "AuthRejected"
  ELSE IF status \in {502, 503, 504} THEN "ServerOverload"
  ELSE "ApplicationError"

\* An XrpcOutcome: a success payload or a classified failure.
Success(data) == [payload |-> Str(data), failure |-> Undefined]
Failure(category, error, message) ==
  [payload |-> Undefined,
   failure |-> [category |-> category, error |-> error, message |-> message]]

\* Mutant of Execute: a body that does not decode is defaulted to an empty
\* payload.
Execute_DefaultsMalformedBody(resp) ==
  IF resp = NoResponse THEN Failure("NetworkFailure", Undefined, Undefined)
  ELSE IF IsSuccessStatus(resp.status)
       THEN IF resp.body.tag = "payload" THEN Success(resp.body.data) ELSE Success("")
       ELSE IF resp.body.tag = "envelope"
            THEN Failure(StatusCategory(resp.status), Str(resp.body.error), Str(resp.body.message))
            ELSE Failure(StatusCategory(resp.status), Undefined, Undefined)

\* execute(XrpcRequest) -> XrpcOutcome, given what the attempt received.
Execute(resp) ==
  IF resp = NoResponse THEN Failure("NetworkFailure", Undefined, Undefined)
  ELSE IF IsSuccessStatus(resp.status)
       THEN IF resp.body.tag = "payload" THEN Success(resp.body.data)
            ELSE Failure("DecodeFailure", Undefined, Undefined)
       ELSE IF resp.body.tag = "envelope"
            THEN Failure(StatusCategory(resp.status), Str(resp.body.error), Str(resp.body.message))
            ELSE Failure(StatusCategory(resp.status), Undefined, Undefined)

\* The calls: a query, a procedure, a procedure whose caller opted in to
\* retries.
Requests ==
  {[kind |-> "query", retryProcedure |-> FALSE],
   [kind |-> "procedure", retryProcedure |-> FALSE],
   [kind |-> "procedure", retryProcedure |-> TRUE]}

CategoryOf(outcome) ==
  IF outcome.failure = Undefined THEN "Success" ELSE outcome.failure.category
Transient(outcome) == CategoryOf(outcome) \in {"NetworkFailure", "ServerOverload"}

\* Mutant of Retryable: any failure of a query is retried.
Retryable_AnyFailure(req, outcome) ==
  /\ req.kind = "query" \/ req.retryProcedure
  /\ CategoryOf(outcome) # "Success"

\* Only transient outcomes are retried, and only of queries or of procedures
\* whose caller opted in.
Retryable(req, outcome) ==
  /\ req.kind = "query" \/ req.retryProcedure
  /\ Transient(outcome)

\* Mutant of ShouldRetry: the budget is compared off by one.
ShouldRetry_OffByOne(req, outcome, started, budget) ==
  Retryable(req, outcome) /\ started <= budget

\* Another attempt follows if the outcome is retryable and the budget is not
\* exhausted.
ShouldRetry(req, outcome, started, budget) ==
  Retryable(req, outcome) /\ started < budget

\* Mutant of OnCancel: an aborted attempt is reported as a network failure.
OnCancel_AsNetworkFailure(pending) ==
  IF pending = "attempt" THEN Failure("NetworkFailure", Undefined, Undefined)
  ELSE Failure("Cancelled", Undefined, Undefined)

\* The outcome of a call aborted while an attempt or a backoff delay was
\* pending.
OnCancel(pending) == Failure("Cancelled", Undefined, Undefined)

\* The attempt in flight ends with what it received.
AttemptSettles(resp) ==
  /\ retryPc = "attempt" /\ ~cancelSignal
  /\ LET outcome == Execute(resp)
     IN /\ response' = resp
        /\ history' = Append(history, outcome)
        /\ IF ShouldRetry(request, outcome, attempts, maxAttempts)
           THEN retryPc' = "backoff" /\ UNCHANGED result
           ELSE retryPc' = "done" /\ result' = outcome
  /\ UNCHANGED <<request, maxAttempts, attempts, cancelSignal, notXrpcVars>>

\* The backoff delay elapses: the next attempt starts.
BackoffElapses ==
  /\ retryPc = "backoff" /\ ~cancelSignal
  /\ retryPc' = "attempt"
  /\ attempts' = attempts + 1
  /\ UNCHANGED <<request, maxAttempts, response, history, result, cancelSignal, notXrpcVars>>

\* The caller's cancellation signal fires during the call.
CancelSignalFires ==
  /\ retryPc # "done" /\ ~cancelSignal
  /\ cancelSignal' = TRUE
  /\ UNCHANGED <<request, maxAttempts, attempts, retryPc, response, history, result, notXrpcVars>>

\* The engine sees the signal: the attempt in flight or the pending backoff
\* delay is aborted and the call ends.
Abort ==
  /\ cancelSignal /\ retryPc # "done"
  /\ retryPc' = "done"
  /\ result' = OnCancel(retryPc)
  /\ UNCHANGED <<request, maxAttempts, attempts, response, history, cancelSignal, notXrpcVars>>

\* executeWithRetry(req, budget) has started its first attempt.
XrpcInit(requests, budgets) ==
  /\ request \in requests
  /\ maxAttempts \in budgets
  /\ attempts = 1
  /\ retryPc = "attempt"
  /\ response = NoResponse
  /\ history = <<>>
  /\ result = Undefined
  /\ cancelSignal = FALSE

\* No call is followed: the call of a query with a budget of one.
NoXrpc == XrpcInit({[kind |-> "query", retryProcedure |-> FALSE]}, {1})

\* ------------------------------------------------------ RecordKey generator
\* The base32 alphabet of a rendered key, in the order of its characters.
Alphabet ==
  <<"2", "3", "4", "5", "6", "7", "a", "b", "c", "d", "e", "f", "g", "h", "i", "j",
    "k", "l", "m", "n", "o", "p", "q", "r", "s", "t", "u", "v", "w", "x", "y", "z">>
\* The length of a rendered key.
TidLength == 13
\* The number of clock identifiers: the suffix of a key.
ClockIds == 1024

\* The place of a character in the order of characters.
Rank(ch) == CHOOSE i \in 1..Len(Alphabet) : Alphabet[i] = ch

\* The last n base32 digits of v, most significant first.
RECURSIVE Encode(_, _)
Encode(v, n) ==
  IF n = 0 THEN <<>>
  ELSE Append(Encode(v \div Len(Alphabet), n - 1), Alphabet[(v % Len(Alphabet)) + 1])

\* The rendered key of a timestamp and a clock identifier.
RenderTid(timestamp, id) == Encode(timestamp * ClockIds + id, TidLength)

\* Comparison of two rendered keys as strings.
RECURSIVE StringLess(_, _)
StringLess(a, b) ==
  IF a = <<>> THEN b # <<>>
  ELSE IF b = <<>> THEN FALSE
  ELSE IF Head(a) # Head(b) THEN Rank(Head(a)) < Rank(Head(b))
  ELSE StringLess(Tail(a), Tail(b))

\* Mutant of NextTimestamp: the clock is trusted.
NextTimestamp_TrustsClock(last, now) == now

\* The timestamp of the next key: the clock reading, or the previous value
\* + 1 if the clock has not advanced beyond it.
NextTimestamp(last, now) == IF now > last THEN now ELSE last + 1

\* Mutant of CanAcquire: access is not serialised.
CanAcquire_Always(holder) == TRUE

\* Exclusive access to the generator is free.
NoTask == "none"
CanAcquire(holder) == holder = NoTask

Tasks == {"task1", "task2"}
IdleTask == [pc |-> "idle", now |-> 0, last |-> 0]

\* Task t asks for a key and gets exclusive access to the generator.
Acquire(t) ==
  /\ tasks[t].pc = "idle"
  /\ Len(issued) + Cardinality({u \in Tasks : tasks[u].pc # "idle"}) < MaxKeys
  /\ CanAcquire(mutex)
  /\ mutex' = t
  /\ tasks' = [tasks EXCEPT ![t].pc = "acquired"]
  /\ UNCHANGED <<clockId, lastTimestamp, issued, notTidVars>>

\* Task t reads the clock and the generator's last-issued timestamp.
ReadClock(t, now) ==
  /\ tasks[t].pc = "acquired"
  /\ tasks' = [tasks EXCEPT ![t] = [pc |-> "read", now |-> now, last |-> lastTimestamp]]
  /\ UNCHANGED <<clockId, lastTimestamp, mutex, issued, notTidVars>>

\* Task t stores the new timestamp, emits the key and gives up its access.
Emit(t) ==
  /\ tasks[t].pc = "read"
  /\ LET timestamp == NextTimestamp(tasks[t].last, tasks[t].now)
     IN /\ lastTimestamp' = timestamp
        /\ issued' = Append(issued, [key |-> RenderTid(timestamp, clockId), task |-> t,
                                     now |-> tasks[t].now])
  /\ mutex' = IF mutex = t THEN NoTask ELSE mutex
  /\ tasks' = [tasks EXCEPT ![t] = IdleTask]
  /\ UNCHANGED <<clockId, notTidVars>>

\* A generator that has issued nothing.
TidInit(ids) ==
  /\ clockId \in ids
  /\ lastTimestamp = 0
  /\ mutex = NoTask
  /\ tasks = [t \in Tasks |-> IdleTask]
  /\ issued = <<>>

\* ---------------------------------------------------------- specifications
\* The Provider alone, with every input it can be given.
InitProvider ==
  /\ ProviderInit
  /\ ConfigInit(AdditionalSamples, {FALSE}, {Undefined})
  /\ SplashInit({"light"})
  /\ NoXrpc
  /\ TidInit({0})
NextProvider ==
  \/ \E ov \in OverrideInputs : OverrideChanges(ov)
  \/ \E account \in CurrentAccountInputs : SessionChanges(account)
  \/ \E p \in PrefsInputs : PreferencesChange(p)
  \/ \E ld \in LabelDefsInputs : LabelDefsChange(ld)
  \/ \E hp \in HiddenPostsInputs : HiddenPostsChange(hp)
SpecProvider == InitProvider /\ [][NextProvider]_vars

\* The label-authority configuration alone, one call at a time.
InitConfig ==
  /\ ProviderInit
  /\ ConfigInit(AdditionalInputs, BOOLEAN, StoredInputs)
  /\ SplashInit({"light"})
  /\ NoXrpc
  /\ TidInit({0})
NextConfig ==
  \/ NoCallInProgress /\ ConfigureModerationForGuest
  \/ NoCallInProgress /\ \E c \in Calls, account \in Accounts : ConfigureModerationForAccount(c, account)
  \/ \E c \in Calls, settled \in ResolveHandleOutcomes : ResolveHandleSettles(c, settled)
  \/ \E c \in Calls, settled \in AnyReadLabelersOutcome : ReadLabelersSettles(c, settled)
SpecConfig == InitConfig /\ [][NextConfig]_vars

\* The Provider and the label-authority configuration together, on a sample
\* of the inputs.
OverrideSamples == {Undefined, ModerationOpts(Undefined, [adultContentEnabled |-> FALSE, labelers |-> <<>>, hiddenPosts |-> <<AlicePost>>], {})}
PrefsSamples ==
  {[data |-> Undefined],
   [data |-> [moderationPrefs |-> [adultContentEnabled |-> FALSE, labelers |-> <<A, B>>, hiddenPosts |-> <<OtherPost>>]]]}
HiddenPostsSamples == {Undefined, Arr(<<AlicePost>>)}
Init ==
  /\ ProviderInit
  /\ ConfigInit(AdditionalSamples, BOOLEAN, StoredSamples)
  /\ SplashInit({"light"})
  /\ NoXrpc
  /\ TidInit({0})
Next ==
  \/ \E ov \in OverrideSamples : OverrideChanges(ov)
  \/ \E account \in CurrentAccountInputs : SessionChanges(account)
  \/ \E p \in PrefsSamples : PreferencesChange(p)
  \/ \E hp \in HiddenPostsSamples : HiddenPostsChange(hp)
  \/ NoCallInProgress /\ ConfigureModerationForGuest
  \/ NoCallInProgress /\ \E c \in Calls, account \in Accounts : ConfigureModerationForAccount(c, account)
  \/ \E c \in Calls, settled \in ResolveHandleOutcomes : ResolveHandleSettles(c, settled)
  \/ \E c \in Calls, settled \in AnyReadLabelersOutcome : ReadLabelersSettles(c, settled)
Spec == Init /\ [][Next]_vars

\* Calls of configureModerationForGuest and configureModerationForAccount that
\* overlap: a call can start while others wait for the handle resolution or
\* for the read of the persisted labelers.
InitConcurrent ==
  /\ ProviderInit
  /\ ConfigInit(AdditionalSamples, BOOLEAN, StoredSamples)
  /\ SplashInit({"light"})
  /\ NoXrpc
  /\ TidInit({0})
NextConcurrent ==
  \/ ConfigureModerationForGuest
  \/ \E c \in Calls, account \in Accounts : ConfigureModerationForAccount(c, account)
  \/ \E c \in Calls, settled \in ResolveHandleOutcomes : ResolveHandleSettles(c, settled)
  \/ \E c \in Calls, settled \in AnyReadLabelersOutcome : ReadLabelersSettles(c, settled)
SpecConcurrent == InitConcurrent /\ [][NextConcurrent]_vars

\* The splash screen from its mount on: the caller becomes ready, the image
\* loads, the layout happens, promises settle and animations end in any order.
InitSplash ==
  /\ ProviderInit
  /\ ConfigInit({<<>>}, {FALSE}, {Undefined})
  /\ SplashInit(ColorSchemes)
  /\ NoXrpc
  /\ TidInit({0})
NextSplash ==
  \/ IsReadyProp
  \/ OnLoadEnd
  \/ OnLayout
  \/ \E enabled \in BOOLEAN : SetReduceMotion(enabled)
  \/ \E scheme \in ColorSchemes : ColorSchemeChanges(scheme)
  \/ \E settled \in {Fulfilled(Undefined), Rejected} : HideAsyncSettles(settled)
  \/ IntroFinishes
  \/ OutroLogoFinishes
  \/ OutroAppFinishes
  \/ OutroAppOpacityFinishes
  \/ OnFinish
SpecSplash == InitSplash /\ [][NextSplash]_vars

\* The same with fair scheduling of what the runtime owes: a pending promise
\* settles, a running animation ends, a queued call runs.
SpecSplashFair ==
  /\ SpecSplash
  /\ WF_vars(\E settled \in {Fulfilled(Undefined), Rejected} : HideAsyncSettles(settled))
  /\ WF_vars(IntroFinishes)
  /\ WF_vars(OutroLogoFinishes)
  /\ WF_vars(OnFinish)

\* One call of executeWithRetry, from its first attempt to its return.
InitXrpc ==
  /\ ProviderInit
  /\ ConfigInit({<<>>}, {FALSE}, {Undefined})
  /\ SplashInit({"light"})
  /\ XrpcInit(Requests, 1..MaxAttempts)
  /\ TidInit({0})
NextXrpc ==
  \/ \E resp \in Responses : AttemptSettles(resp)
  \/ BackoffElapses
  \/ CancelSignalFires
  \/ Abort
SpecXrpc == InitXrpc /\ [][NextXrpc]_vars /\ WF_vars(Abort)

\* Tasks that ask one generator for keys, with any clock readings.
InitTid ==
  /\ ProviderInit
  /\ ConfigInit({<<>>}, {FALSE}, {Undefined})
  /\ SplashInit({"light"})
  /\ NoXrpc
  /\ TidInit({0, ClockIds - 1})
NextTid ==
  \/ \E t \in Tasks : Acquire(t)
  \/ \E t \in Tasks, now \in 0..MaxClock : ReadClock(t, now)
  \/ \E t \in Tasks : Emit(t)
SpecTid == InitTid /\ [][NextTid]_vars

\* ------------------------------------------------------ Provider properties
\* The merge branch of the Provider: no override, preferences loaded.
MergeBranch == override = Undefined /\ prefs.data # Undefined

\* C1: whenever an override context is present, the provided context is the
\* override itself, whatever the account, the preferences, the hidden posts
\* and the label definitions are.
C1_OverrideReturnedUnchanged == override # Undefined => value = override

C1_Witness ==
  /\ override # Undefined
  /\ currentAccount # Undefined
  /\ prefs.data # Undefined
  /\ hiddenPosts # Undefined
  /\ labelDefs # override.labelDefs
  /\ value = override

\* C2: with no override and the preferences not loaded the provided context
\* is the unresolved state, and with the preferences loaded it never is.
C2_UnresolvedIffNotLoaded ==
  /\ (override = Undefined /\ prefs.data = Undefined) => value = Undefined
  /\ prefs.data # Undefined => value # Undefined

C2_Witness ==
  /\ override = Undefined
  /\ prefs.data # Undefined
  /\ prefs.data.moderationPrefs.labelers = <<>>
  /\ hiddenPosts = Arr(<<>>)
  /\ value # Undefined
  /\ value.prefs.labelers = <<>>

\* C3 as claimed: in the merge branch the labelers of the context are the
\* labelers of the preferences followed by the additional authorities not
\* already present.
C3_LabelersAreStoredThenAdditional ==
  MergeBranch =>
    value.prefs.labelers = Dedup(prefs.data.moderationPrefs.labelers \o additional)

\* C3 as amended: in the merge branch the labelers of the context are exactly
\* the labelers of the preferences, in their order; the additional authorities
\* are not appended.
C3_LabelersAreStoredOnly ==
  MergeBranch => value.prefs.labelers = prefs.data.moderationPrefs.labelers

C3_Witness ==
  /\ MergeBranch
  /\ prefs.data.moderationPrefs.labelers = <<A, B>>
  /\ additional = <<B, C>>
  /\ value.prefs.labelers = <<A, B>>

\* C4 as claimed: in the merge branch no DID occurs twice in the labelers of
\* the context.
C4_NoDuplicateLabelers == MergeBranch => NoDuplicates(value.prefs.labelers)

\* C4 as amended: in the merge branch no DID occurs twice in the labelers of
\* the context when none occurs twice in the labelers of the preferences,
\* whatever the additional authorities are.
C4_NoDuplicateLabelersIfStoredHasNone ==
  (MergeBranch /\ NoDuplicates(prefs.data.moderationPrefs.labelers))
    => NoDuplicates(value.prefs.labelers)

C4_Witness ==
  /\ MergeBranch
  /\ Len(prefs.data.moderationPrefs.labelers) = 2
  /\ NoDuplicates(prefs.data.moderationPrefs.labelers)
  /\ Elems(prefs.data.moderationPrefs.labelers) \cap Elems(additional) # {}
  /\ NoDuplicates(value.prefs.labelers)

\* C5: in the merge branch every labeler of the context is a labeler of the
\* preferences or an additional authority; with neither, there are none.
C5_NoDefaultLabelerInjected ==
  MergeBranch =>
    /\ Elems(value.prefs.labelers) \subseteq
         Elems(prefs.data.moderationPrefs.labelers) \cup Elems(additional)
    /\ (prefs.data.moderationPrefs.labelers = <<>> /\ additional = <<>>)
         => value.prefs.labelers = <<>>

C5_Witness ==
  /\ MergeBranch
  /\ currentAccount # Undefined
  /\ prefs.data.moderationPrefs.labelers = <<>>
  /\ additional = <<>>
  /\ value.prefs.labelers = <<>>

\* C6: in the merge branch the hidden posts of the context are the hidden
\* posts given, or none when they are absent, and the user DID is the DID of
\* the account, or absent for a guest; account did:plc:alice with labelers
\* [did:plc:mod1] and one hidden post gives that post and that labeler.
C6_HiddenPostsAndUserDid ==
  MergeBranch =>
    /\ value # Undefined
    /\ value.prefs.hiddenPosts = (IF hiddenPosts = Undefined THEN <<>> ELSE hiddenPosts.items)
    /\ value.userDid = (IF currentAccount = Undefined THEN Undefined
                        ELSE Str(currentAccount.did))
    /\ (/\ currentAccount # Undefined
        /\ currentAccount.did = "did:plc:alice"
        /\ prefs.data.moderationPrefs.labelers = <<"did:plc:mod1">>
        /\ hiddenPosts = Arr(<<"at://did:plc:alice/app.feed.post/3k2x">>))
       => /\ value.prefs.hiddenPosts = <<"at://did:plc:alice/app.feed.post/3k2x">>
          /\ value.prefs.labelers = <<"did:plc:mod1">>
          /\ value.userDid = Str("did:plc:alice")

C6_Witness ==
  /\ MergeBranch
  /\ currentAccount = Alice
  /\ prefs.data.moderationPrefs.labelers = <<A>>
  /\ hiddenPosts = Arr(<<AlicePost>>)
  /\ value.prefs.hiddenPosts = <<AlicePost>>
  /\ value.prefs.labelers = <<A>>

\* C11: the provided context is never stale: in every state it is what the
\* useMemo callback gives for the current override, account, preferences,
\* hidden posts and label definitions.
C11_ContextIsNeverStale ==
  value = Resolve(override, UserDidOf(currentAccount), ModerationPrefsOf(prefs),
                  hiddenPosts, labelDefs)

\* The context after the preferences loaded and then the account, the hidden
\* posts and the label definitions changed.
C11_Witness ==
  /\ MergeBranch
  /\ currentAccount = Tester
  /\ hiddenPosts = Arr(<<AlicePost, OtherPost>>)
  /\ labelDefs = {"custom-label"}
  /\ value.userDid = Str(Tester.did)
  /\ value.prefs.hiddenPosts = <<AlicePost, OtherPost>>
  /\ value.labelDefs = {"custom-label"}
  /\ value.prefs.adultContentEnabled = prefs.data.moderationPrefs.adultContentEnabled

\* ------------------------------------------- label-authority properties
\* The default public authority, unless it is suppressed.
DefaultAuthorities == IF noAppLabelers THEN <<>> ELSE <<BSKY_LABELER_DID>>

\* configureModerationForGuest has just completed.
GuestConfigured == lastStep.op = "configureModerationForGuest"

\* configureModerationForAccount has just completed (or thrown).
AccountConfigured == lastStep.op = "configureModerationForAccount"

\* C7 as claimed: after configureModerationForGuest the app labelers are
\* exactly the default public authority, or none when it is suppressed.
C7_GuestHasDefaultAuthorityOnly == GuestConfigured => appLabelers = DefaultAuthorities

\* C7 as amended: after configureModerationForGuest the app labelers are the
\* default public authority (none when it is suppressed) followed by the
\* additional authorities not already present; with no additional authority
\* they are exactly the default authority, or none when it is suppressed.
C7_GuestHasDefaultThenAdditional ==
  GuestConfigured =>
    /\ appLabelers = Dedup(DefaultAuthorities \o additional)
    /\ additional = <<>> => appLabelers = DefaultAuthorities

C7_Witness ==
  /\ GuestConfigured
  /\ noAppLabelers
  /\ additional = <<>>
  /\ appLabelers = <<>>

\* C8 as claimed: after configureModerationForAccount for a test user whose
\* test handle resolved to a DID, that DID is the only app labeler.
C8_TestAuthorityIsSole ==
  (AccountConfigured /\ lastStep.testUser /\ lastStep.did # Undefined)
    => appLabelers = <<lastStep.did.value>>

\* C8 as amended: after configureModerationForAccount for a test user whose
\* test handle resolved to a DID, the app labelers are that DID followed by the
\* additional authorities other than it: the DID replaces the default public
\* authority, which is in the list only as an additional authority, and is
\* the only app labeler when there is no additional authority.
C8_TestAuthorityThenAdditional ==
  (AccountConfigured /\ lastStep.testUser /\ lastStep.did # Undefined) =>
    /\ ~lastStep.threw
    /\ appLabelers = Dedup(<<lastStep.did.value>> \o additional)
    /\ BSKY_LABELER_DID \in Elems(appLabelers) => BSKY_LABELER_DID \in Elems(additional)
    /\ additional = <<>> => appLabelers = <<lastStep.did.value>>

C8_Witness ==
  /\ AccountConfigured
  /\ lastStep.account = Tester
  /\ lastStep.did = Str(TestLabelerDid)
  /\ ~noAppLabelers
  /\ additional = <<B>>
  /\ appLabelers = <<TestLabelerDid, B>>

\* C9: when the test handle does not resolve to a DID (the resolution rejects
\* or returns none), configureModerationForAccount completes without error and
\* leaves the app labelers that it leaves for an account that is no test user:
\* the default authority (unless suppressed) and the additional authorities.
C9_TestResolutionFailureFallsBack ==
  /\ (AccountConfigured /\ lastStep.testUser /\ lastStep.did = Undefined) =>
       /\ ~lastStep.threw
       /\ appLabelers = Dedup(DefaultAuthorities \o additional)
  /\ (AccountConfigured /\ ~lastStep.testUser) =>
       /\ ~lastStep.threw
       /\ appLabelers = Dedup(DefaultAuthorities \o additional)

C9_Witness ==
  /\ AccountConfigured
  /\ lastStep.account = Tester
  /\ lastStep.did = Undefined
  /\ ~lastStep.threw
  /\ ~noAppLabelers
  /\ appLabelers = <<BSKY_LABELER_DID, B>>

\* C10: no step of the Provider, of configureModerationForGuest or of
\* configureModerationForAccount changes the persisted labelers of an account,
\* and the labelers configureModerationForAccount has read are those persisted
\* for the account it was given.
C10_LabelerStoreIsReadOnly ==
  /\ [][labelerStore' = labelerStore]_vars
  /\ [](AccountConfigured =>
          lastStep.labelerDids \in {Undefined, labelerStore[lastStep.account.did]})

C10_Witness ==
  /\ AccountConfigured
  /\ lastStep.account = Alice
  /\ labelerStore[Alice.did] = Arr(<<A>>)
  /\ labelerStore[Tester.did] = Undefined
  /\ lastStep.labelerDids = Arr(<<A>>)
  /\ labelersHeader[Alice.did] = Arr(<<A>>)
  /\ value # Undefined

\* C17: a failing read of the persisted labelers is tolerated: the step of
\* configureModerationForAccount that follows the read never throws, leaves
\* every labelers header as it was when the read rejected or returned nothing,
\* sets the header of the account's agent to exactly the persisted list when
\* the read returned one, and in each case configures the additional
\* authorities on the app labelers.
C17_ReadFailureTolerated ==
  [][\A c \in Calls :
       (calls[c].pc = "readLabelers" /\ calls'[c].pc = "idle") =>
         LET did == calls[c].account.did
         IN /\ lastStep'.op = "configureModerationForAccount"
            /\ ~lastStep'.threw
            /\ appLabelers' = Dedup(appLabelers \o additional)
            /\ \A d \in AccountDids \ {did} : labelersHeader'[d] = labelersHeader[d]
            /\ lastStep'.labelerDids \in {Undefined, labelerStore[did]}
            /\ lastStep'.labelerDids = Undefined => labelersHeader'[did] = labelersHeader[did]
            /\ lastStep'.labelerDids # Undefined => labelersHeader'[did] = labelerStore[did]
    ]_vars

\* The read of a persisted list rejected: the header is still not configured
\* and the additional authorities are.
C17_Witness ==
  /\ AccountConfigured
  /\ ~lastStep.threw
  /\ labelerStore[lastStep.account.did] = Arr(<<A>>)
  /\ lastStep.labelerDids = Undefined
  /\ labelersHeader[lastStep.account.did] = Undefined
  /\ additional = <<C>>
  /\ appLabelers = <<BSKY_LABELER_DID, C>>

\* The app labelers that the call that started last leaves when it runs alone.
LatestAlone ==
  IF latest.did # Undefined THEN Dedup(<<latest.did.value>> \o additional)
  ELSE Dedup(DefaultAuthorities \o additional)

\* C18: once every configuration call has finished, the app labelers are
\* those that the call that started last leaves when it runs alone; the test
\* authority is among them only if that call resolved it.
C18_LastStartedCallWins ==
  (NoCallInProgress /\ latest.op # "none") => appLabelers = LatestAlone

\* ------------------------------------- Transport and Retry Engine properties
\* The call has returned without the caller having cancelled it.
Returned == retryPc = "done" /\ ~cancelSignal

\* The number of transient failures that history starts with.
RECURSIVE LeadingTransient(_)
LeadingTransient(h) ==
  IF h # <<>> /\ Transient(Head(h)) THEN 1 + LeadingTransient(Tail(h)) ELSE 0

\* C12: a query whose first k attempts fail with a transient failure and
\* whose next attempt succeeds returns that success after exactly k+1
\* attempts, and k < maxAttempts; a query whose attempts have all failed with
\* a transient failure returns only when it has made exactly maxAttempts
\* attempts, and returns the last failure unchanged.
C12_AttemptCount ==
  (Returned /\ request.kind = "query") =>
    LET k == LeadingTransient(history)
    IN /\ attempts = Len(history)
       /\ attempts <= maxAttempts
       /\ (Len(history) = k + 1 /\ CategoryOf(history[k + 1]) = "Success") =>
            /\ k < maxAttempts
            /\ attempts = k + 1
            /\ result = history[k + 1]
            /\ result = Success(response.body.data)
       /\ Len(history) = k =>
            /\ attempts = maxAttempts
            /\ result = history[maxAttempts]
            /\ result = Execute(response)

\* ServerOverload twice, then a success, with a budget of 3: the success is
\* returned after 3 attempts.
C12_Witness ==
  /\ Returned /\ request.kind = "query" /\ maxAttempts = 3
  /\ Len(history) = 3 /\ attempts = 3
  /\ CategoryOf(history[1]) = "ServerOverload" /\ CategoryOf(history[2]) = "ServerOverload"
  /\ result = Success("record")

\* C13: a procedure whose caller has not opted in makes exactly one attempt
\* and returns its outcome, whatever it is; and for any call an attempt that
\* ends with an ApplicationError or an AuthRejected is the last one, and its
\* outcome is returned with the kind and the message of the envelope.
C13_NeverRetry ==
  /\ (request.kind = "procedure" /\ ~request.retryProcedure) =>
       /\ attempts = 1 /\ retryPc # "backoff"
       /\ Returned => (Len(history) = 1 /\ result = history[1])
  /\ \A i \in 1..Len(history) :
       CategoryOf(history[i]) \in {"ApplicationError", "AuthRejected"} =>
         /\ i = Len(history) /\ i = attempts
         /\ Returned
         /\ result = history[i]
         /\ result.failure.category = StatusCategory(response.status)
         /\ response.body.tag = "envelope" =>
              /\ result.failure.error = Str(response.body.error)
              /\ result.failure.message = Str(response.body.message)

\* A query with two attempts left stops at a NotFound after one transient
\* failure.
C13_Witness ==
  /\ Returned /\ request.kind = "query" /\ maxAttempts = 3 /\ attempts = 2
  /\ Transient(history[1])
  /\ response = [tag |-> "http", status |-> 404, body |-> Envelope("NotFound", "Record not found")]
  /\ result = Failure("ApplicationError", Str("NotFound"), Str("Record not found"))

\* C14: once the cancellation signal has fired during a call, no attempt is
\* started or completed, the call ends, and its outcome is Cancelled.
C14_Cancellation ==
  /\ [](cancelSignal /\ retryPc = "done" => result = Failure("Cancelled", Undefined, Undefined))
  /\ [][cancelSignal => attempts' = attempts /\ history' = history]_vars
  /\ (cancelSignal ~> retryPc = "done")

\* Cancelled during the second attempt, with budget left.
C14_Witness ==
  /\ cancelSignal /\ retryPc = "done"
  /\ attempts = 2 /\ Len(history) = 1 /\ maxAttempts = 3
  /\ CategoryOf(result) = "Cancelled"

\* C16: the outcome of an attempt carries a payload iff the status is a
\* success status and the body decodes; a success status with a body that does
\* not decode gives a DecodeFailure; an error status gives a failure of the
\* status's class with the error kind and message of the envelope; an outcome
\* has exactly one of payload and failure.
C16_OutcomeClassification ==
  history # <<>> =>
    LET outcome == history[Len(history)]
        http == response # NoResponse
        decodes == http /\ response.body.tag = "payload"
    IN /\ (outcome.payload = Undefined) # (outcome.failure = Undefined)
       /\ outcome.payload # Undefined <=> (http /\ IsSuccessStatus(response.status) /\ decodes)
       /\ decodes /\ IsSuccessStatus(response.status) => outcome.payload = Str(response.body.data)
       /\ (http /\ IsSuccessStatus(response.status) /\ ~decodes) =>
            CategoryOf(outcome) = "DecodeFailure"
       /\ (http /\ ~IsSuccessStatus(response.status)) =>
            /\ CategoryOf(outcome) \in {"ApplicationError", "AuthRejected", "ServerOverload"}
            /\ response.body.tag = "envelope" =>
                 /\ outcome.failure.error = Str(response.body.error)
                 /\ outcome.failure.message = Str(response.body.message)
       /\ ~http => CategoryOf(outcome) = "NetworkFailure"

\* A success status with a body that does not decode.
C16_Witness ==
  /\ response = [tag |-> "http", status |-> 200, body |-> Malformed]
  /\ history # <<>>
  /\ history[Len(history)] = Failure("DecodeFailure", Undefined, Undefined)
  /\ result = Failure("DecodeFailure", Undefined, Undefined)

\* --------------------------------------------- RecordKey generator properties
\* C15: the rendered keys are strictly increasing, as strings, in the order
\* of issue, whichever tasks asked for them and whatever the clock read;
\* hence they are pairwise distinct.
C15_KeysStrictlyIncreasing ==
  \A i, j \in 1..Len(issued) :
    i < j => /\ StringLess(issued[i].key, issued[j].key)
             /\ issued[i].key # issued[j].key

\* Two tasks got keys, the second after a backward jump of the clock and the
\* third at the same tick.
C15_Witness ==
  /\ Len(issued) = 3
  /\ issued[1].task # issued[2].task
  /\ issued[2].now < issued[1].now
  /\ issued[3].now = issued[2].now
  /\ StringLess(issued[1].key, issued[2].key)
  /\ StringLess(issued[2].key, issued[3].key)

\* ------------------------------------------------------- Splash properties
\* C19: the children are rendered, hideAsync is called and the intro
\* animation is started only when the caller's isReady is true, the splash
\* image has loaded and the layout callback has fired.
C19_SplashGating ==
  (rendered.children \/ hideAsync # "notCalled" \/ intro # "idle")
    => (propsIsReady /\ isImageLoaded /\ isLayoutReady)

\* All three hold, the children are rendered and the intro animation runs.
C19_Witness ==
  /\ propsIsReady /\ isImageLoaded /\ isLayoutReady
  /\ rendered.children
  /\ hideAsync = "fulfilled"
  /\ intro = "running"

\* C20: once the caller is ready, the image loaded and the layout done, the
\* animation-complete flag eventually becomes true and the overlay is removed.
C20_SplashCompletes ==
  (propsIsReady /\ isImageLoaded /\ isLayoutReady)
    ~> (isAnimationComplete /\ ~rendered.overlay)

\* C21: the animation-complete flag is set only after hideAsync has resolved,
\* then the intro animation has finished, then the outroLogo animation has
\* finished; no outro animation starts before the intro has finished; and the
\* flag, once true, stays true, and the overlay stays removed.
C21_AnimationOrdering ==
  /\ [](intro # "idle" => hideAsync = "fulfilled")
  /\ []((outroLogo # "idle" \/ outroApp # "idle" \/ outroAppOpacity # "idle")
          => intro = "finished")
  /\ [](jsQueue # <<>> => outroLogo = "finished")
  /\ [](isAnimationComplete =>
          /\ hideAsync = "fulfilled" /\ intro = "finished" /\ outroLogo = "finished"
          /\ ~rendered.overlay /\ ~rendered.logo)
  /\ [][~isAnimationComplete /\ isAnimationComplete' =>
          Head(jsQueue) = "onFinish" /\ outroLogo = "finished"]_vars
  /\ [][isAnimationComplete => isAnimationComplete' /\ ~rendered'.overlay]_vars

\* The whole sequence has run: the flag is set, the overlay is removed and the
\* children are rendered.
C21_Witness ==
  /\ isAnimationComplete
  /\ hideAsync = "fulfilled" /\ intro = "finished" /\ outroLogo = "finished"
  /\ colorScheme = "dark" /\ rendered.source = "splash-dark.png"
  /\ ~rendered.overlay
  /\ rendered.children

\* C22: the splash is not ready, and the intro animation has not started,
\* while the reduce-motion query is still pending, so the logo animation is
\* never chosen from the initial value of reduceMotion.
C22_ReduceMotionGate ==
  reduceMotionQuery =>
    /\ ~IsReady(propsIsReady, isImageLoaded, isLayoutReady, reduceMotion)
    /\ ~rendered.logo
    /\ hideAsync = "notCalled"
    /\ intro = "idle"
====
